---------------------------- MODULE Spec2Model ----------------------------
(***************************************************************************)
(* Swarm feeds: topic derivation, the 52-byte feed layout, recoverable     *)
(* signatures, and the temporal Lookup that drives an epoch search         *)
(* strategy through one probe callback.                                    *)
(*                                                                         *)
(* Bytes are naturals in 0..255, byte strings are sequences of bytes.      *)
(* Four specifications share the module: SpecLookup, SpecTopic, SpecFeed   *)
(* and SpecSign; each leaves the variables of the others untouched.        *)
(***************************************************************************)
EXTENDS Integers, Sequences, FiniteSets, TLC

VARIABLES
    \* ---- Lookup (src/unnamed/part_002) ----
    store,        \* content of the store at each ID.Addr() of the feed
    timeLimit,    \* Lookup's deadline T
    phase,        \* position of the Lookup call: "init", "searching", "done"
    ctxDone,      \* the caller's context has been cancelled
    readCount,    \* the shared int32 read counter
    pst,          \* per epoch, position of the probe: "idle", "loading", "done"
    elapsed,      \* per epoch, time units the probe's Load has been running
    loadErr,      \* per epoch, the error ls.Load handed back to the probe
    pret,         \* per epoch, what the probe callback returned
    outcome,      \* what Lookup returned: value and error
    \* ---- Topic (src/unnamed/part_001) ----
    tName, tRel, topic, topicErr, topic2, hexStr, jsonStr, nameOut, tpc,
    \* ---- Feed (src/io.go) ----
    feed, buf, feedOut, feedErr, fpc,
    \* ---- Signer (src/sign.go) ----
    privKey, digest, signature, signErr, recovered, spc

lookupVars == <<store, timeLimit, phase, ctxDone, readCount, pst, elapsed,
                loadErr, pret, outcome>>
topicVars  == <<tName, tRel, topic, topicErr, topic2, hexStr, jsonStr, nameOut, tpc>>
feedVars   == <<feed, buf, feedOut, feedErr, fpc>>
signVars   == <<privKey, digest, signature, signErr, recovered, spc>>
vars       == <<lookupVars, topicVars, feedVars, signVars>>

Nil == "nil"

(***************************************************************************)
(* Sizes fixed by the program.                                             *)
(***************************************************************************)
HashLength      == 32
AddressLength   == 20
TopicLength     == 32
signatureLength == 65
retrieveTimeout == 10
feedLength      == TopicLength + AddressLength

(***************************************************************************)
(* Bounds of the model.                                                    *)
(***************************************************************************)
NumKeys     == 2    \* private keys 1..NumKeys; key 1 owns the feed
NumDigests  == 3    \* digests signed in SpecSign
MaxEpoch    == 3    \* epochs 1..MaxEpoch, later epochs hold later times
MaxInFlight == 2    \* probes the strategy runs concurrently

Byte == 0..255
Zeros(n) == [i \in 1..n |-> 0]
Min(a, b) == IF a < b THEN a ELSE b


(***************************************************************************)
(* Signer and recovery (src/sign.go).                                      *)
(*                                                                         *)
(* The curve arithmetic of btcec is abstracted: a private key is a number, *)
(* and r, s and the recovery id are fixed byte functions of the key and    *)
(* the digest, so that a compact signature determines its key.             *)
(***************************************************************************)
PrivKeys == 1..NumKeys
OwnerKey == 1

\* privKey.PublicKey
PubOf(k) == 100 + k

\* a nil *ecdsa.PublicKey; a key p that was recovered is <<p>>
NoKey == <<>>

\* Keccak256 of the public key, last AddressLength bytes
NewEthereumAddress(pub) == [i \in 1..AddressLength |-> (pub * 7 + i * 3) % 256]

\* a 32-byte Hash
DigestOf(n) == [i \in 1..HashLength |-> (n * 16 + i) % 256]
Digests == { DigestOf(n) : n \in 1..NumDigests }

CurveR(k, d) == [i \in 1..32 |-> (k * 37 + d[i]) % 256]
CurveS(k, d) == [i \in 1..32 |-> (k * 91 + d[33 - i] + i) % 256]
CurveV(k, d) == 27 + ((k + d[1]) % 2)

\* btcec.SignCompact: recovery byte first, then r, then s
SignCompact(k, d) == <<CurveV(k, d)>> \o CurveR(k, d) \o CurveS(k, d)

\* btcec.RecoverCompact: the public key that made the compact signature
RecoverCompact(btcsig, d) ==
    IF Len(btcsig) = signatureLength
       /\ \E k \in PrivKeys : SignCompact(k, d) = btcsig
    THEN [pub |-> <<PubOf(CHOOSE k \in PrivKeys : SignCompact(k, d) = btcsig)>>,
          err |-> Nil]
    ELSE [pub |-> NoKey, err |-> "invalid signature"]

\* NewGenericSigner / GenericSigner.Address
SignerAddress(k) == NewEthereumAddress(PubOf(k))

\* GenericSigner.sign: (v,r,s) of btcec turned into (r,s,v)
sign(k, sighash) ==
    LET sig0    == SignCompact(k, sighash)
        v       == sig0[1]
        \* copy(signature, signature[1:])
        shifted == [i \in 1..signatureLength |->
                       IF i < signatureLength THEN sig0[i + 1] ELSE sig0[i]]
    IN  [shifted EXCEPT ![signatureLength] = v]

\* GenericSigner.Sign
Sign(k, data) == [sig |-> sign(k, data), err |-> Nil]

\* mutant: the signature is handed to the curve recovery as it is
Recover_noReorder(sig, data) ==
    IF Len(sig) # 65
    THEN [pub |-> NoKey, err |-> "invalid signature length"]
    ELSE RecoverCompact(sig, data)

\* Recover
Recover(sig, data) ==
    IF Len(sig) # 65
    THEN [pub |-> NoKey, err |-> "invalid signature length"]
    ELSE LET btcsig == [i \in 1..65 |-> IF i = 1 THEN sig[65] ELSE sig[i - 1]]
         IN  RecoverCompact(btcsig, data)

\* mutant: every signature is taken to be the feed owner's
getUserAddr_noRecover(dig, sig) ==
    [addr |-> NewEthereumAddress(PubOf(OwnerKey)), err |-> Nil]

\* getUserAddr
getUserAddr(dig, sig) ==
    LET r == Recover(sig, dig)
    IN  IF r.err # Nil
        THEN [addr |-> Zeros(AddressLength), err |-> r.err]
        ELSE [addr |-> NewEthereumAddress(r.pub[1]), err |-> Nil]

\* ---- SpecSign: one key signs one digest, the signature is recovered ----
SignIdle ==
    /\ privKey = OwnerKey /\ digest = <<>> /\ signature = <<>>
    /\ signErr = Nil /\ recovered = [pub |-> NoKey, err |-> Nil] /\ spc = "off"

InitSign ==
    /\ privKey \in PrivKeys
    /\ digest \in Digests
    /\ signature = <<>>
    /\ signErr = Nil
    /\ recovered = [pub |-> NoKey, err |-> Nil]
    /\ spc = "start"

SignStep ==
    /\ spc = "start"
    /\ LET r == Sign(privKey, digest)
       IN  signature' = r.sig /\ signErr' = r.err
    /\ spc' = "signed"
    /\ UNCHANGED <<privKey, digest, recovered>>
    /\ UNCHANGED <<lookupVars, topicVars, feedVars>>

\* byte strings a caller may hand to Recover instead of the signature
Damaged(sig) ==
    { SubSeq(sig, 1, Len(sig) - 1), sig \o <<0>>, <<>>, SubSeq(sig, 2, Len(sig)) }
    \cup { [sig EXCEPT ![p] = (sig[p] + 1) % 256] : p \in {1, 2, 32, 33, 64, 65} }

Damage ==
    /\ spc = "signed"
    /\ \E bad \in Damaged(signature) : signature' = bad
    /\ spc' = "damaged"
    /\ UNCHANGED <<privKey, digest, signErr, recovered>>
    /\ UNCHANGED <<lookupVars, topicVars, feedVars>>

RecoverStep ==
    /\ spc \in {"signed", "damaged"}
    /\ recovered' = Recover(signature, digest)
    /\ spc' = IF spc = "signed" THEN "recovered" ELSE "recoveredDamaged"
    /\ UNCHANGED <<privKey, digest, signature, signErr>>
    /\ UNCHANGED <<lookupVars, topicVars, feedVars>>

NextSign == SignStep \/ Damage \/ RecoverStep


(***************************************************************************)
(* Topic (src/unnamed/part_001).                                           *)
(***************************************************************************)
RECURSIVE XorByte(_, _)
XorByte(a, b) ==
    IF a = 0 THEN b
    ELSE IF b = 0 THEN a
    ELSE ((a + b) % 2) + 2 * XorByte(a \div 2, b \div 2)

\* XORBytes(dst, a, b): dst[i] = a[i] ^ b[i] for the bytes both have
XORBytes(dst, a, b) ==
    LET n == Min(Len(a), Len(b))
    IN  [i \in 1..Len(dst) |-> IF i <= n THEN XorByte(a[i], b[i]) ELSE dst[i]]

\* copy(dst, src)
Copy(dst, src) ==
    [i \in 1..Len(dst) |-> IF i <= Len(src) THEN src[i] ELSE dst[i]]

\* a []byte that may be nil
NilBytes     == [isNil |-> TRUE, bytes |-> <<>>]
Bytes(b)     == [isNil |-> FALSE, bytes |-> b]

ErrTopicTooLong == "Topic is too long"
ErrInvalidValue == "ErrInvalidValue"

\* mutant: the name overwrites the related content instead of being merged
NewTopic_copyName(name, relatedContent) ==
    LET nameLength == Min(Len(name), TopicLength)
    IN  [topic |-> Copy(Zeros(TopicLength), SubSeq(name, 1, nameLength)),
         err   |-> IF Len(name) > TopicLength THEN ErrTopicTooLong ELSE Nil]

\* NewTopic
NewTopic(name, relatedContent) ==
    LET contentLength == Min(Len(relatedContent.bytes), TopicLength)
        err1   == IF ~relatedContent.isNil /\ Len(relatedContent.bytes) > TopicLength
                  THEN ErrTopicTooLong ELSE Nil
        topic1 == IF ~relatedContent.isNil
                  THEN Copy(Zeros(TopicLength),
                            SubSeq(relatedContent.bytes, 1, contentLength))
                  ELSE Zeros(TopicLength)
        nameLength == Min(Len(name), TopicLength)
        err2   == IF Len(name) > TopicLength THEN ErrTopicTooLong ELSE err1
    IN  [topic |-> XORBytes(topic1, topic1, SubSeq(name, 1, nameLength)),
         err   |-> err2]

\* bytes.IndexByte, 0-based, -1 when absent
IndexByte(bs, c) ==
    IF \E i \in 1..Len(bs) : bs[i] = c
    THEN (CHOOSE i \in 1..Len(bs) :
             bs[i] = c /\ \A j \in 1..(i - 1) : bs[j] # c) - 1
    ELSE -1

\* Topic.Name
Name(t, relatedContent) ==
    LET contentLength == Min(Len(relatedContent.bytes), TopicLength)
        nameBytes == IF ~relatedContent.isNil
                     THEN XORBytes(t, t, SubSeq(relatedContent.bytes, 1, contentLength))
                     ELSE t
        z0 == IndexByte(nameBytes, 0)
        z  == IF z0 < 0 THEN TopicLength ELSE z0
    IN  SubSeq(nameBytes, 1, z)

HexChars == <<"0", "1", "2", "3", "4", "5", "6", "7",
              "8", "9", "a", "b", "c", "d", "e", "f">>
UpperHexChars == <<"0", "1", "2", "3", "4", "5", "6", "7",
                   "8", "9", "A", "B", "C", "D", "E", "F">>

\* hex.EncodeToString
EncodeToString(bs) ==
    [i \in 1..(2 * Len(bs)) |->
        IF i % 2 = 1 THEN HexChars[(bs[(i + 1) \div 2] \div 16) + 1]
                     ELSE HexChars[(bs[i \div 2] % 16) + 1]]

IsHexChar(c) == \E v \in 1..16 : HexChars[v] = c \/ UpperHexChars[v] = c
HexVal(c)    == (CHOOSE v \in 1..16 : HexChars[v] = c \/ UpperHexChars[v] = c) - 1

\* hex.DecodeString
DecodeString(h) ==
    IF Len(h) % 2 = 1 \/ \E i \in 1..Len(h) : ~IsHexChar(h[i])
    THEN [bytes |-> <<>>, err |-> "hex"]
    ELSE [bytes |-> [i \in 1..(Len(h) \div 2) |->
                        16 * HexVal(h[2 * i - 1]) + HexVal(h[2 * i])],
          err   |-> Nil]

\* Topic.Hex
TopicHex(t) == EncodeToString(t)

\* Topic.FromHex: the receiver t after the call, and the error
TopicFromHex(t, h) ==
    LET d == DecodeString(h)
    IN  IF d.err # Nil \/ Len(d.bytes) # Len(t)
        THEN [topic |-> t, err |-> ErrInvalidValue]
        ELSE [topic |-> Copy(t, d.bytes), err |-> Nil]

Quote == "\""

\* Topic.MarshalJSON: json.Marshal of the hex string
TopicMarshalJSON(t) == <<Quote>> \o TopicHex(t) \o <<Quote>>

\* Topic.UnmarshalJSON: json.Unmarshal into a string, then FromHex
TopicUnmarshalJSON(t, data) ==
    IF Len(data) < 2 \/ data[1] # Quote \/ data[Len(data)] # Quote
       \/ \E i \in 2..(Len(data) - 1) : data[i] = Quote
    THEN [topic |-> t, err |-> "json"]
    ELSE TopicFromHex(t, SubSeq(data, 2, Len(data) - 1))

\* ---- SpecTopic: a topic is made, encoded, decoded, and its name read ----
TestName    == <<116, 101, 115, 116, 45, 116, 111, 112, 105, 99>>
TestPattern == <<171, 205, 239, 1, 35, 69, 103, 137>>
Pattern(n)  == [i \in 1..n |-> TestPattern[((i - 1) % 8) + 1]]

NameBytes == {0, 1, 116, 255}
NameLens  == {0, 1, 2, 3, 10, 30, 31, 32, 33}
Names ==
    { [i \in 1..n |-> IF i % 2 = 1 THEN ab[1] ELSE ab[2]] :
        n \in NameLens, ab \in NameBytes \X NameBytes } \cup {TestName}
RelLens == {0, 1, 31, 32, 33, 40}
Rels ==
    {NilBytes} \cup { Bytes(Pattern(n)) : n \in RelLens }
               \cup { Bytes([i \in 1..n |-> c]) : n \in RelLens, c \in {0, 255} }

NoName == [at |-> "none", val |-> <<>>]

TopicIdle ==
    /\ tName = <<>> /\ tRel = NilBytes /\ topic = <<>>
    /\ topicErr = Nil /\ topic2 = <<>> /\ hexStr = <<>>
    /\ jsonStr = <<>> /\ nameOut = NoName /\ tpc = "off"

InitTopic ==
    /\ tName \in Names
    /\ tRel \in Rels
    /\ topic = Zeros(TopicLength)
    /\ topicErr = Nil
    /\ topic2 = Zeros(TopicLength)
    /\ hexStr = <<>>
    /\ jsonStr = <<>>
    /\ nameOut = NoName
    /\ tpc = "start"

NewTopicStep ==
    /\ tpc = "start"
    /\ LET r == NewTopic(tName, tRel)
       IN  topic' = r.topic /\ topicErr' = r.err
    /\ tpc' = "made"
    /\ UNCHANGED <<tName, tRel, topic2, hexStr, jsonStr, nameOut>>
    /\ UNCHANGED <<lookupVars, feedVars, signVars>>

HexStep ==
    /\ tpc = "made"
    /\ hexStr' = TopicHex(topic)
    /\ tpc' = "hexed"
    /\ UNCHANGED <<tName, tRel, topic, topicErr, topic2, jsonStr, nameOut>>
    /\ UNCHANGED <<lookupVars, feedVars, signVars>>

FromHexStep ==
    /\ tpc = "hexed"
    /\ LET r == TopicFromHex(topic2, hexStr)
       IN  topic2' = r.topic /\ topicErr' = r.err
    /\ tpc' = "unhexed"
    /\ UNCHANGED <<tName, tRel, topic, hexStr, jsonStr, nameOut>>
    /\ UNCHANGED <<lookupVars, feedVars, signVars>>

MarshalStep ==
    /\ tpc = "unhexed"
    /\ jsonStr' = TopicMarshalJSON(topic2)
    /\ tpc' = "marshalled"
    /\ UNCHANGED <<tName, tRel, topic, topicErr, topic2, hexStr, nameOut>>
    /\ UNCHANGED <<lookupVars, feedVars, signVars>>

UnmarshalStep ==
    /\ tpc = "marshalled"
    /\ LET r == TopicUnmarshalJSON(Zeros(TopicLength), jsonStr)
       IN  topic2' = r.topic /\ topicErr' = r.err
    /\ tpc' = "unmarshalled"
    /\ UNCHANGED <<tName, tRel, topic, hexStr, jsonStr, nameOut>>
    /\ UNCHANGED <<lookupVars, feedVars, signVars>>

NameStep ==
    /\ tpc \in {"made", "unhexed", "unmarshalled"}
    /\ nameOut.at # tpc
    /\ nameOut' = [at  |-> tpc,
                   val |-> Name(IF tpc = "made" THEN topic ELSE topic2, tRel)]
    /\ UNCHANGED <<tName, tRel, topic, topicErr, topic2, hexStr, jsonStr, tpc>>
    /\ UNCHANGED <<lookupVars, feedVars, signVars>>

NextTopic ==
    NewTopicStep \/ HexStep \/ FromHexStep \/ MarshalStep \/ UnmarshalStep \/ NameStep


(***************************************************************************)
(* Feed and its 52-byte layout (src/io.go).                                *)
(***************************************************************************)
\* mutant: the user is written in front of the topic
binaryPut_userFirst(f, serializedData) ==
    IF Len(serializedData) # feedLength
    THEN [buf |-> serializedData, err |-> ErrInvalidValue]
    ELSE [buf |-> f.User \o f.Topic, err |-> Nil]

\* Feed.binaryPut: the slice after the call, and the error
binaryPut(f, serializedData) ==
    IF Len(serializedData) # feedLength
    THEN [buf |-> serializedData, err |-> ErrInvalidValue]
    ELSE LET withTopic ==
                 [i \in 1..Len(serializedData) |->
                     IF i <= TopicLength THEN f.Topic[i] ELSE serializedData[i]]
             withUser ==
                 [i \in 1..Len(serializedData) |->
                     IF i > TopicLength /\ i <= TopicLength + AddressLength
                     THEN f.User[i - TopicLength] ELSE withTopic[i]]
         IN  [buf |-> withUser, err |-> Nil]

\* Feed.binaryGet: the receiver after the call, and the error
binaryGet(f, serializedData) ==
    IF Len(serializedData) # feedLength
    THEN [feed |-> f, err |-> ErrInvalidValue]
    ELSE [feed |-> [Topic |-> Copy(f.Topic, SubSeq(serializedData, 1, TopicLength)),
                    User  |-> Copy(f.User,
                                   SubSeq(serializedData, TopicLength + 1,
                                          TopicLength + AddressLength))],
          err  |-> Nil]

\* ---- SpecFeed: a feed is written to a slice and read back ----
ZeroFeed == [Topic |-> Zeros(TopicLength), User |-> Zeros(AddressLength)]
NoFeed   == [Topic |-> <<>>, User |-> <<>>]

FeedTopics ==
    { NewTopic(n, NilBytes).topic : n \in {<<>>, TestName, <<255, 1>>} }
    \cup { NewTopic(TestName, Bytes(Pattern(TopicLength))).topic }
Feeds == [Topic : FeedTopics, User : { SignerAddress(k) : k \in PrivKeys }]

BufLens == {0, 1, feedLength - 1, feedLength, feedLength + 1}
Bufs    == { [i \in 1..n |-> c] : n \in BufLens, c \in {0, 90} }

FeedIdle ==
    /\ feed = NoFeed /\ buf = <<>> /\ feedOut = NoFeed
    /\ feedErr = Nil /\ fpc = "off"

InitFeed ==
    /\ feed \in Feeds
    /\ buf \in Bufs
    /\ feedOut \in {ZeroFeed, [Topic |-> Pattern(TopicLength),
                               User  |-> Pattern(AddressLength)]}
    /\ feedErr = Nil
    /\ fpc = "start"

BinaryPutStep ==
    /\ fpc = "start"
    /\ LET r == binaryPut(feed, buf)
       IN  buf' = r.buf /\ feedErr' = r.err
    /\ fpc' = "put"
    /\ UNCHANGED <<feed, feedOut>>
    /\ UNCHANGED <<lookupVars, topicVars, signVars>>

BinaryGetStep ==
    /\ fpc \in {"start", "put"}
    /\ LET r == binaryGet(feedOut, buf)
       IN  feedOut' = r.feed /\ feedErr' = r.err
    /\ fpc' = IF fpc = "put" THEN "got" ELSE "gotRaw"
    /\ UNCHANGED <<feed, buf>>
    /\ UNCHANGED <<lookupVars, topicVars, signVars>>

NextFeed == BinaryPutStep \/ BinaryGetStep


(***************************************************************************)
(* Temporal Lookup (src/unnamed/part_002).                                 *)
(*                                                                         *)
(* The search strategy (lookup.FluzCapacitorAlgorithm), the update record  *)
(* decoder (Request.fromChunk) and ID.Addr are not part of the sources at  *)
(* hand; they are modelled from the design document.  The strategy sees    *)
(* only what the probe callback returns: it never looks at the context.    *)
(***************************************************************************)
Epochs == 1..MaxEpoch

\* the feed searched: Lookup's user and topic
LookupFeed ==
    [Topic |-> NewTopic(TestName, NilBytes).topic, User |-> SignerAddress(OwnerKey)]

\* ID.Addr(): a reference that Feed and Epoch determine
IDAddr(id) == <<id.Feed.Topic[1], id.Feed.User[1], id.Epoch>>
AddrTable == [e \in Epochs |-> IDAddr([Feed |-> LookupFeed, Epoch |-> e])]
AddrOfEpoch(e) == AddrTable[e]
Addrs == { AddrOfEpoch(e) : e \in Epochs }

\* the digest an update's signature is made over
UpdateDigest(e, t) == DigestOf(e * 4 + t)

\* what the store may hold at an address
NoChunk == [kind |-> "none", Time |-> 0, Signature |-> <<>>]
Garbage == [kind |-> "garbage", Time |-> 0, Signature |-> <<>>]
UpdateChunk(e, t, k) ==
    [kind |-> "update", Time |-> t, Signature |-> Sign(k, UpdateDigest(e, t)).sig]

\* epochs partition time: the update of epoch e carries the Time 10 * e
TimeOf(e) == 10 * e
Deadlines == { 5 * i : i \in 1..(2 * MaxEpoch + 1) }

ChunksAt(e) ==
    {NoChunk, Garbage} \cup { UpdateChunk(e, TimeOf(e), k) : k \in {OwnerKey, NumKeys} }

Stores ==
    { st \in [Addrs -> UNION { ChunksAt(e) : e \in Epochs }] :
        \A e \in Epochs : st[AddrOfEpoch(e)] \in ChunksAt(e) }

ErrNotFound         == "ErrNotFound"
ErrCanceled         == "context canceled"
ErrDeadlineExceeded == "context deadline exceeded"
ErrChunkNotFound    == "chunk not found"

\* Request.fromChunk: decode the content and verify that the signature is the
\* feed owner's
fromChunk(ch, f, epoch) ==
    IF ch.kind # "update"
    THEN [request |-> NoChunk, err |-> "decode"]
    ELSE LET a == getUserAddr(UpdateDigest(epoch, ch.Time), ch.Signature)
         IN  IF a.err # Nil \/ a.addr # f.User
             THEN [request |-> NoChunk, err |-> "signature"]
             ELSE [request |-> ch, err |-> Nil]

\* request.fromChunk(ch) for every content Load can hand to the probe
Decoded ==
    [e \in Epochs |-> [ch \in ChunksAt(e) |-> fromChunk(ch, LookupFeed, e)]]

\* ls.Load under the probe's context: it ends when the content is there, when
\* the caller cancels, or when retrieveTimeout has passed
Load(e) ==
    IF ctxDone
    THEN [b |-> NoChunk, err |-> ErrCanceled]
    ELSE IF elapsed[e] >= retrieveTimeout
    THEN [b |-> NoChunk, err |-> ErrDeadlineExceeded]
    ELSE IF store[AddrOfEpoch(e)].kind = "none"
    THEN [b |-> NoChunk, err |-> ErrChunkNotFound]
    ELSE [b |-> store[AddrOfEpoch(e)], err |-> Nil]

Absent       == [req |-> <<>>, err |-> Nil]
Candidate(r) == [req |-> <<r>>, err |-> Nil]
NotCalled    == [req |-> <<>>, err |-> "not returned"]

\* mutant: the deadline is exclusive
Probe_strict(epoch, lr, limit) ==
    LET dec == Decoded[epoch][lr.b]
    IN  IF dec.err # Nil THEN Absent
        ELSE IF dec.request.Time < limit THEN Candidate(dec.request)
        ELSE Absent

\* mutant: the Time of the update is not compared with the deadline
Probe_anyTime(epoch, lr, limit) ==
    LET dec == Decoded[epoch][lr.b]
    IN  IF dec.err # Nil THEN Absent ELSE Candidate(dec.request)

\* mutant: an error of Load is handed to the strategy
Probe_loadErr(epoch, lr, limit) ==
    LET dec == Decoded[epoch][lr.b]
    IN  IF lr.err \in {ErrCanceled, ErrDeadlineExceeded}
        THEN [req |-> <<>>, err |-> lr.err]
        ELSE IF dec.err # Nil THEN Absent
        ELSE IF dec.request.Time <= limit THEN Candidate(dec.request)
        ELSE Absent

\* the probe callback from the return of Load on: the error of Load is dropped,
\* a content that does not decode is "absent", and so is a too new update
Probe(epoch, lr, limit) ==
    LET dec == Decoded[epoch][lr.b]
    IN  IF dec.err # Nil THEN Absent
        ELSE IF dec.request.Time <= limit THEN Candidate(dec.request)
        ELSE Absent

\* mutant: a plain read and write, lost when another probe is on its way
AddInt32_racy(addr, delta) ==
    IF \E e \in Epochs : pst[e] = "loading" THEN addr ELSE addr + delta

\* atomic.AddInt32
AddInt32(addr, delta) ==
    IF delta > 0 /\ addr > 2147483647 - delta
    THEN (-2147483647 - 1) + (addr - (2147483647 - delta)) - 1
    ELSE addr + delta

\* h.updateCache(request): the request goes back to the caller
updateCache(request) == [req |-> <<request>>, err |-> Nil]

\* mutant: a nil request is handed back without an error
LookupReturn_noNotFound(requestPtr, err) ==
    IF err # Nil THEN [req |-> <<>>, err |-> err]
    ELSE [req |-> requestPtr, err |-> Nil]

\* Lookup after the strategy has returned
LookupReturn(requestPtr, err) ==
    IF err # Nil THEN [req |-> <<>>, err |-> err]
    ELSE IF requestPtr = <<>> THEN [req |-> <<>>, err |-> ErrNotFound]
    ELSE updateCache(requestPtr[1])

\* ---- the search strategy ----
Found    == { e \in Epochs : pst[e] = "done" /\ pret[e].req # <<>> }
Failed   == { e \in Epochs : pst[e] = "done" /\ pret[e].err # Nil }
InFlight == { e \in Epochs : pst[e] = "loading" }
Invoked  == { e \in Epochs : pst[e] # "idle" }
MaxOf(S) == CHOOSE x \in S : \A y \in S : y <= x

\* epochs that can still hold the latest qualifying update
Open == { e \in Epochs : pst[e] = "idle" /\ \A f \in Found : f < e }

\* the strategy walks back in time from the latest epoch
NextEpoch == MaxOf(Open)

\* what the strategy returns: the candidate of the latest epoch, or the first error
StrategyResult ==
    IF Failed # {}
    THEN [value |-> <<>>, err |-> pret[MaxOf(Failed)].err]
    ELSE IF Found = {} THEN [value |-> <<>>, err |-> Nil]
    ELSE [value |-> pret[MaxOf(Found)].req, err |-> Nil]

NoOutcome == [req |-> <<>>, err |-> "pending"]

LookupIdle ==
    /\ store = [a \in Addrs |-> NoChunk] /\ timeLimit = 0 /\ phase = "off"
    /\ ctxDone = FALSE /\ readCount = 0
    /\ pst = [e \in Epochs |-> "idle"] /\ elapsed = [e \in Epochs |-> 0]
    /\ loadErr = [e \in Epochs |-> Nil]
    /\ pret = [e \in Epochs |-> NotCalled]
    /\ outcome = NoOutcome

InitLookup ==
    /\ store \in Stores
    /\ timeLimit \in Deadlines
    /\ phase = "init"
    /\ ctxDone = FALSE
    /\ readCount = 0
    /\ pst = [e \in Epochs |-> "idle"]
    /\ elapsed = [e \in Epochs |-> 0]
    /\ loadErr = [e \in Epochs |-> Nil]
    /\ pret = [e \in Epochs |-> NotCalled]
    /\ outcome = NoOutcome

\* Lookup is called: the deadline is taken, the strategy is entered
LookupStart ==
    /\ phase = "init"
    /\ phase' = "searching"
    /\ UNCHANGED <<store, timeLimit, ctxDone, readCount, pst, elapsed, loadErr,
                   pret, outcome>>
    /\ UNCHANGED <<topicVars, feedVars, signVars>>

\* the caller cancels its context
Cancel ==
    /\ phase \in {"init", "searching"}
    /\ ~ctxDone
    /\ ctxDone' = TRUE
    /\ UNCHANGED <<store, timeLimit, phase, readCount, pst, elapsed, loadErr,
                   pret, outcome>>
    /\ UNCHANGED <<topicVars, feedVars, signVars>>

\* the strategy invokes the callback for an epoch: the counter is raised, the
\* probe's context is made and Load is entered
ProbeStart(e) ==
    /\ phase = "searching"
    /\ Failed = {}
    /\ Open # {}
    /\ e = NextEpoch
    /\ Cardinality(InFlight) < MaxInFlight
    /\ readCount' = AddInt32(readCount, 1)
    /\ pst' = [pst EXCEPT ![e] = "loading"]
    /\ elapsed' = [elapsed EXCEPT ![e] = 0]
    /\ UNCHANGED <<store, timeLimit, phase, ctxDone, loadErr, pret, outcome>>
    /\ UNCHANGED <<topicVars, feedVars, signVars>>

\* time passes while probes wait for the store, TickUnits at a step; once the
\* context is cancelled every pending Load is interrupted, whatever the time
TickUnits == retrieveTimeout \div 2

Tick ==
    /\ phase = "searching"
    /\ ~ctxDone
    /\ \E e \in InFlight : elapsed[e] < retrieveTimeout
    /\ elapsed' = [e \in Epochs |->
                     IF e \in InFlight /\ elapsed[e] < retrieveTimeout
                     THEN Min(elapsed[e] + TickUnits, retrieveTimeout)
                     ELSE elapsed[e]]
    /\ UNCHANGED <<store, timeLimit, phase, ctxDone, readCount, pst, loadErr,
                   pret, outcome>>
    /\ UNCHANGED <<topicVars, feedVars, signVars>>

\* Load returns and the callback runs to its return
ProbeFinish(e) ==
    /\ phase = "searching"
    /\ pst[e] = "loading"
    /\ LET lr == Load(e)
       IN  /\ loadErr' = [loadErr EXCEPT ![e] = lr.err]
           /\ pret' = [pret EXCEPT ![e] = Probe(e, lr, timeLimit)]
    /\ pst' = [pst EXCEPT ![e] = "done"]
    /\ elapsed' = [elapsed EXCEPT ![e] = 0]
    /\ UNCHANGED <<store, timeLimit, phase, ctxDone, readCount, outcome>>
    /\ UNCHANGED <<topicVars, feedVars, signVars>>

\* the strategy returns and Lookup hands its result to the caller
LookupFinish ==
    /\ phase = "searching"
    /\ InFlight = {}
    /\ Failed # {} \/ Open = {}
    /\ outcome' = LookupReturn(StrategyResult.value, StrategyResult.err)
    /\ phase' = "done"
    /\ UNCHANGED <<store, timeLimit, ctxDone, readCount, pst, elapsed, loadErr,
                   pret>>
    /\ UNCHANGED <<topicVars, feedVars, signVars>>

NextLookup ==
    \/ LookupStart
    \/ Cancel
    \/ \E e \in Epochs : ProbeStart(e)
    \/ Tick
    \/ \E e \in Epochs : ProbeFinish(e)
    \/ LookupFinish

(***************************************************************************)
(* The specifications.                                                     *)
(***************************************************************************)
InitLookupAll == InitLookup /\ TopicIdle /\ FeedIdle /\ SignIdle
InitTopicAll  == InitTopic /\ LookupIdle /\ FeedIdle /\ SignIdle
InitFeedAll   == InitFeed /\ LookupIdle /\ TopicIdle /\ SignIdle
InitSignAll   == InitSign /\ LookupIdle /\ TopicIdle /\ FeedIdle

SpecLookup == InitLookupAll /\ [][NextLookup]_vars
SpecTopic  == InitTopicAll /\ [][NextTopic]_vars
SpecFeed   == InitFeedAll /\ [][NextFeed]_vars
SpecSign   == InitSignAll /\ [][NextSign]_vars


(***************************************************************************)
(* Properties of Lookup.                                                   *)
(***************************************************************************)
ChunkAt(e) == store[AddrOfEpoch(e)]

\* the feed's own updates in the store, and those the deadline admits
SignedChunk == [e \in Epochs |-> [k \in PrivKeys |-> UpdateChunk(e, TimeOf(e), k)]]
OwnUpdates == { e \in Epochs : ChunkAt(e) = SignedChunk[e][OwnerKey] }
Qualifying == { e \in OwnUpdates : ChunkAt(e).Time <= timeLimit }
Latest     == CHOOSE e \in Qualifying :
                  \A f \in Qualifying : ChunkAt(f).Time <= ChunkAt(e).Time

TimedOut   == { e \in Epochs : pst[e] = "done" /\ loadErr[e] = ErrDeadlineExceeded }
CutShort   == { e \in Epochs : pst[e] = "done" /\ loadErr[e] = ErrCanceled }
Returned   == phase = "done" /\ outcome.req # <<>>

C2_NotFound ==
    phase = "done" =>
        /\ (Failed = {} /\ Found = {}) =>
              outcome = [req |-> <<>>, err |-> ErrNotFound]
        /\ (\A e \in Epochs : ChunkAt(e).kind = "update" => ChunkAt(e).Time > timeLimit)
              => outcome = [req |-> <<>>, err |-> ErrNotFound]

C2_Witness ==
    /\ phase = "done" /\ ~ctxDone /\ TimedOut = {}
    /\ \A e \in Epochs : ChunkAt(e) = SignedChunk[e][OwnerKey]
    /\ timeLimit < TimeOf(1)
    /\ outcome = [req |-> <<>>, err |-> ErrNotFound]

\* C3 as stated: once the caller's context is cancelled, Lookup ends with a
\* cancellation error, never with NotFound or an update, and no probe returns
\* a normal candidate or absent answer after the cancellation.
C3_CancelAborts ==
    /\ (phase = "done" /\ ctxDone) =>
          (outcome.err = ErrCanceled /\ outcome.req = <<>>)
    /\ \A e \in CutShort : pret[e].err # Nil

\* C4 as stated: a probe whose fetch does not complete within retrieveTimeout
\* aborts the Lookup with a deadline or cancellation error and is not
\* reported as absent.
C4_TimeoutAborts ==
    /\ \A e \in TimedOut : pret[e].err # Nil
    /\ (phase = "done" /\ TimedOut # {}) =>
          (outcome.err \in {ErrDeadlineExceeded, ErrCanceled} /\ outcome.req = <<>>)

\* C4, amended: a probe whose fetch does not complete within retrieveTimeout
\* is reported to the strategy as absent, with no error; the Lookup is not
\* aborted: it ends with NotFound or with the candidate of another probe.
C4_TimeoutIsAbsent ==
    /\ \A e \in TimedOut : pret[e] = Absent
    /\ (phase = "done" /\ TimedOut # {}) =>
          \/ outcome = [req |-> <<>>, err |-> ErrNotFound]
          \/ /\ outcome.err = Nil
             /\ \E e \in Found \ TimedOut : outcome.req = pret[e].req

C4_Witness ==
    /\ phase = "done" /\ ~ctxDone
    /\ \E e \in TimedOut : e \in OwnUpdates /\ ChunkAt(e).Time <= timeLimit
    /\ outcome.err = Nil /\ outcome.req # <<>>

\* C5: a probe returns a candidate only for a content that decodes into an
\* update with Time <= T, and for every such content that Load hands over;
\* a content that is not found, does not decode or is newer than T gives
\* absent with no error, and no such failure reaches Lookup's caller.
DecodesAt(e) == ChunkAt(e).kind = "update" /\ ChunkAt(e) = SignedChunk[e][OwnerKey]
C5_ProbeAnswer ==
    /\ \A e \in Epochs : pst[e] = "done" =>
          /\ pret[e].err = Nil
          /\ pret[e].req # <<>> =>
                (DecodesAt(e) /\ ChunkAt(e).Time <= timeLimit
                 /\ pret[e].req = <<ChunkAt(e)>>)
          /\ loadErr[e] = Nil =>
                (pret[e].req # <<>> <=> (DecodesAt(e) /\ ChunkAt(e).Time <= timeLimit))
          /\ loadErr[e] # Nil => pret[e] = Absent
    /\ phase = "done" => outcome.err \in {Nil, ErrNotFound}

C5_Witness ==
    /\ phase = "done"
    /\ \E e1, e2, e3 \in Epochs :
          /\ pst[e1] = "done" /\ ChunkAt(e1) = Garbage /\ pret[e1] = Absent
          /\ pst[e2] = "done" /\ loadErr[e2] = Nil /\ e2 \in OwnUpdates
          /\ ChunkAt(e2).Time > timeLimit /\ pret[e2] = Absent
          /\ pst[e3] = "done" /\ ChunkAt(e3).Time = timeLimit
          /\ pret[e3].req = <<ChunkAt(e3)>>

\* C6: every update Lookup returns carries a signature made with the key of
\* the feed's owner; an update stored at the feed's address but signed with
\* another key is never returned.
SignedBy(r, k) ==
    \E e \in Epochs :
        r.Time = TimeOf(e) /\ r.Signature = SignedChunk[e][k].Signature
C10_ReadCount == readCount = Cardinality(Invoked)

C10_Witness ==
    /\ phase = "done" /\ readCount >= 2
    /\ \E e1, e2 \in Epochs : e1 # e2 /\ pst[e1] = "done" /\ pst[e2] = "done"


(***************************************************************************)
(* Properties of Feed, Topic and the signer.                               *)
(***************************************************************************)
\* C7: binaryPut into a 52-byte slice writes the topic, then the user, and
\* binaryGet of that slice restores the feed; with a slice of any other
\* length both fail with InvalidValue and change neither slice nor feed.
C7_FeedLayout ==
    [][ /\ (fpc = "start" /\ fpc' = "put") =>
              IF Len(buf) = 52
              THEN buf' = feed.Topic \o feed.User /\ feedErr' = Nil /\ feed' = feed
              ELSE buf' = buf /\ feedErr' = ErrInvalidValue /\ feed' = feed
        /\ (fpc \in {"start", "put"} /\ fpc' \in {"got", "gotRaw"}) =>
              IF Len(buf) = 52
              THEN /\ feedErr' = Nil /\ buf' = buf
                   /\ feedOut'.Topic = SubSeq(buf, 1, 32)
                   /\ feedOut'.User = SubSeq(buf, 33, 52)
                   /\ fpc = "put" => feedOut' = feed
              ELSE feedOut' = feedOut /\ feedErr' = ErrInvalidValue /\ buf' = buf
      ]_vars

C7_Witness ==
    /\ fpc = "got" /\ feedErr = Nil
    /\ feed.Topic = NewTopic(TestName, Bytes(Pattern(TopicLength))).topic
    /\ buf = feed.Topic \o feed.User
    /\ feedOut = feed

\* C8: for a name without a zero byte and shorter than 32 bytes and a related
\* content of at most 32 bytes (or nil), Name(relatedContent) of
\* NewTopic(name, relatedContent) is the name, also for the topic that went
\* through Hex/FromHex and MarshalJSON/UnmarshalJSON.
C8_NameRoundTrip ==
    (/\ \A i \in 1..Len(tName) : tName[i] # 0
     /\ Len(tName) < 32
     /\ Len(tRel.bytes) <= 32) =>
        /\ nameOut.at # "none" => nameOut.val = tName
        /\ tpc \in {"unhexed", "marshalled", "unmarshalled"} =>
              (topic2 = topic /\ topicErr = Nil)

TestTopicHex ==
    <<"d", "f", "a", "8", "9", "c", "7", "5", "0", "e", "3", "1", "0",
      "8", "f", "9", "c", "2", "a", "e", "e", "f", "0", "1", "2", "3",
      "4", "5", "6", "7", "8", "9", "a", "b", "c", "d", "e", "f", "0",
      "1", "2", "3", "4", "5", "6", "7", "8", "9", "a", "b", "c", "d",
      "e", "f", "0", "1", "2", "3", "4", "5", "6", "7", "8", "9">>

\* the vector of TestTopic
C8_Witness ==
    /\ tName = TestName /\ tRel = Bytes(Pattern(32))
    /\ hexStr = TestTopicHex
    /\ jsonStr = <<Quote>> \o TestTopicHex \o <<Quote>>
    /\ nameOut = [at |-> "unmarshalled", val |-> TestName]

\* C9: the signature is r (32 bytes), s (32 bytes), then the recovery id; the
\* address of the key Recover returns for it is the signer's address; Recover
\* of a byte string that is not 65 bytes long fails and returns no key.
C9_SignRecover ==
    /\ spc \in {"signed", "recovered"} =>
          /\ signErr = Nil /\ Len(signature) = 65
          /\ SubSeq(signature, 1, 32) = CurveR(privKey, digest)
          /\ SubSeq(signature, 33, 64) = CurveS(privKey, digest)
          /\ signature[65] = CurveV(privKey, digest)
    /\ spc = "recovered" =>
          /\ recovered.err = Nil /\ recovered.pub # NoKey
          /\ NewEthereumAddress(recovered.pub[1]) = SignerAddress(privKey)
    /\ (spc = "recoveredDamaged" /\ Len(signature) # 65) =>
          (recovered.err # Nil /\ recovered.pub = NoKey)

C9_Witness ==
    /\ spc = "recovered" /\ privKey # OwnerKey
    /\ recovered = [pub |-> <<PubOf(privKey)>>, err |-> Nil]

=============================================================================
